---- MODULE Spec2Model ----
(***************************************************************************)
(* Model of the Sir-Interruptsalot front end: the App shell (landing page  *)
(* / arena switch) and the Arena component's session, turn and timer state *)
(* machine, including the closures that React effects, timeouts and        *)
(* in-flight fetch continuations capture at the render that created them.  *)
(*                                                                         *)
(* Strings the code trims are sequences of characters, so that trim() is   *)
(* computed.  Timestamps and source citations of messages are not part of  *)
(* any decision the code takes and are left out of the message records.    *)
(* The remote API is a black box: every reply field is drawn from a small  *)
(* set, and every request may also fail.                                   *)
(***************************************************************************)
EXTENDS Integers, Sequences, FiniteSets, TLC

\* ------------------------------------------------------------------ bounds
MaxSends == 2           \* send_argument requests explored per mount
MaxServerTime == 1      \* largest time_remaining a reply carries

\* --------------------------------------------------------- program constants
InitialTime == 300
NumCookingMessages == 10

Null == "null"
SPACE == " "

\* Texts a user can have in a text box: empty, whitespace only, and a text
\* with leading whitespace.
Texts == { <<>>, <<SPACE>>, <<SPACE, "a">> }
BotResponses == { <<"b">> }
\* the id the server gives the session of a mount
SessionIds == { "s1" }
Reports == { <<"r">> }
StatusUpdates == { "", "ruling" }
ServerTimes == 0..MaxServerTime
\* scores are copied from a reply into the state and never tested; a reply
\* carries a score that differs from the initial 0
Scores == { 1 }

VARIABLES
  \* App state
  currentView, userArgument,
  \* Arena state (useState / useRef)
  messages, userInput, isLoading, userScore, botScore, timeRemaining,
  gameStarted, sessionId, gameEnded, finalReport, currentJudgeRuling,
  isSurrendering, cookingMessageIndex, isOvertime, hasInitialized,
  \* runtime: live countdown intervals, in-flight requests, pending timeouts
  intervals, startReqs, sendReqs, endReqs, timeouts,
  \* history: last handler run, requests issued in this mount, successful
  \* replies to overtime arguments in this mount, whether a countdown tick
  \* of this mount has called endSession
  lastOp, issuedSid, nStart, nSend, nEnd, nRetry, nOvertimeOk,
  tickEnded

appVars == <<currentView, userArgument>>
arenaVars == <<messages, userInput, isLoading, userScore, botScore,
               timeRemaining, gameStarted, sessionId, gameEnded, finalReport,
               currentJudgeRuling, isSurrendering, cookingMessageIndex,
               isOvertime, hasInitialized>>
netVars == <<startReqs, sendReqs, endReqs, timeouts>>
histVars == <<issuedSid, nStart, nSend, nEnd, nRetry, nOvertimeOk,
              tickEnded>>
\* every variable the program itself holds (all but the history variables)
progVars == <<appVars, arenaVars, intervals, netVars>>
vars == <<appVars, arenaVars, intervals, netVars, histVars, lastOp>>

\* ------------------------------------------------------------ pure helpers
IsSpace(c) == c = SPACE

RECURSIVE TrimLeft(_)
TrimLeft(s) ==
  IF s = <<>> THEN <<>>
  ELSE IF IsSpace(Head(s)) THEN TrimLeft(Tail(s)) ELSE s

RECURSIVE TrimRight(_)
TrimRight(s) ==
  IF s = <<>> THEN <<>>
  ELSE IF IsSpace(s[Len(s)]) THEN TrimRight(SubSeq(s, 1, Len(s) - 1)) ELSE s

\* String.prototype.trim
Trim(s) == TrimRight(TrimLeft(s))

\* truthiness of a JS string
Truthy(s) == s # <<>>

RemoveAt(s, i) == SubSeq(s, 1, i - 1) \o SubSeq(s, i + 1, Len(s))

\* prev.slice(0, -1)
SliceOffLastKeeps(s) == s
SliceOffLast(s) == IF s = <<>> THEN <<>> ELSE SubSeq(s, 1, Len(s) - 1)

UserMessage(text) == [role |-> "user", content |-> text]
BotMessage(text) == [role |-> "bot", content |-> text]

\* ------------------------------------------------------------- what is shown
\* truthiness of finalReport: string | null
HasReport(r) == r # Null /\ Truthy(r)

\* The component's early returns: cooking screen, report screen, else arena.
Screen ==
  IF currentView = "start" THEN "landing"
  ELSE IF isSurrendering /\ ~gameEnded THEN "cooking"
  ELSE IF gameEnded /\ HasReport(finalReport) THEN "report"
  ELSE "arena"

\* ------------------------------------------------------ the countdown effect
TimerDepsNoInput == <<gameStarted, timeRemaining, gameEnded, isOvertime>>
TimerDeps == <<gameStarted, timeRemaining, gameEnded, isOvertime, userInput>>
TimerCondIgnoresOvertime == gameStarted /\ timeRemaining > 0 /\ ~gameEnded
TimerCondAnyTime == gameStarted /\ ~gameEnded /\ ~isOvertime
TimerCond == gameStarted /\ timeRemaining > 0 /\ ~gameEnded /\ ~isOvertime

\* the effect's cleanup: clearInterval of the interval the last run created
ClearIntervalSkipped(ivs) == ivs
ClearInterval(ivs) == IF ivs = <<>> THEN <<>> ELSE SubSeq(ivs, 1, Len(ivs) - 1)

\* The interval callback closes over userInput and endSession (hence over
\* sessionId) of the render in which the effect ran.
NewInterval == [sessionId |-> sessionId', userInput |-> userInput']

\* Runs after every commit: when a dependency changed, the cleanup of the
\* previous run and then the effect body; ivs is the list of live intervals
\* left by the handler itself.
TimerEffect(ivs) ==
  intervals' =
    IF currentView' # "arena" THEN ClearInterval(ivs)
    ELSE IF TimerDeps' = TimerDeps /\ currentView = "arena" THEN ivs
    ELSE LET cleared == ClearInterval(ivs) IN
         IF TimerCond' THEN Append(cleared, NewInterval) ELSE cleared

\* -------------------------------------------------------------------- Init
\* useState / useRef initial values of a freshly mounted Arena
ArenaInitial ==
  [messages |-> <<>>, userInput |-> <<>>, isLoading |-> FALSE,
   userScore |-> 0, botScore |-> 0, timeRemaining |-> InitialTime,
   gameStarted |-> FALSE, sessionId |-> Null, gameEnded |-> FALSE,
   finalReport |-> Null, currentJudgeRuling |-> Null,
   isSurrendering |-> FALSE, cookingMessageIndex |-> 0,
   isOvertime |-> FALSE, hasInitialized |-> FALSE]

Init ==
  /\ currentView = "start"
  /\ userArgument = <<>>
  /\ messages = ArenaInitial.messages
  /\ userInput = ArenaInitial.userInput
  /\ isLoading = ArenaInitial.isLoading
  /\ userScore = ArenaInitial.userScore
  /\ botScore = ArenaInitial.botScore
  /\ timeRemaining = ArenaInitial.timeRemaining
  /\ gameStarted = ArenaInitial.gameStarted
  /\ sessionId = ArenaInitial.sessionId
  /\ gameEnded = ArenaInitial.gameEnded
  /\ finalReport = ArenaInitial.finalReport
  /\ currentJudgeRuling = ArenaInitial.currentJudgeRuling
  /\ isSurrendering = ArenaInitial.isSurrendering
  /\ cookingMessageIndex = ArenaInitial.cookingMessageIndex
  /\ isOvertime = ArenaInitial.isOvertime
  /\ hasInitialized = ArenaInitial.hasInitialized
  /\ intervals = <<>>
  /\ startReqs = <<>>
  /\ sendReqs = <<>>
  /\ endReqs = <<>>
  /\ timeouts = <<>>
  /\ lastOp = "init"
  /\ issuedSid = Null
  /\ nStart = 0
  /\ nSend = 0
  /\ nEnd = 0
  /\ nRetry = 0
  /\ nOvertimeOk = 0
  /\ tickEnded = FALSE

\* ------------------------------------------------------------- App handlers
\* landing page textarea onChange
SetUserArgument(v) ==
  /\ Screen = "landing"
  /\ v # userArgument
  /\ userArgument' = v
  /\ lastOp' = "-"
  /\ UNCHANGED <<currentView, arenaVars, intervals, netVars, histVars>>

\* guard of the auto-start effect, on the values of the render it runs in
AutoStartFiresAlways(initialUserMessage, sid, started, initialized) ==
  Truthy(initialUserMessage)
AutoStartFires(initialUserMessage, sid, started, initialized) ==
  Truthy(initialUserMessage) /\ sid = Null /\ ~started /\ ~initialized

\* number of start_session requests the auto-start effect issues on a mount:
\* its first run on the initial render, and its re-run once gameStarted has
\* changed (sessionId still null, hasInitialized set by the first run)
StartsOnMount(initialUserMessage) ==
  IF AutoStartFires(initialUserMessage, Null, FALSE, FALSE)
  THEN IF AutoStartFires(initialUserMessage, Null, TRUE, TRUE) THEN 2 ELSE 1
  ELSE 0

StartRequest(initialMessage) == [message |-> initialMessage]

\* the condition of handleStartArgument
HandleStartArgumentAnyInput(arg) == TRUE
HandleStartArgumentGuard(arg) == Truthy(Trim(arg))

\* handleStartArgument (button click or Ctrl/Cmd+Enter).  With a non-blank
\* statement the view switches to the arena; the Arena mounts and its
\* auto-start effect calls startArgumentSession(initialUserMessage) up to
\* the fetch.
HandleStartArgument ==
  /\ Screen = "landing"
  /\ IF HandleStartArgumentGuard(userArgument)
     THEN /\ currentView' = "arena"
          /\ LET n == StartsOnMount(userArgument) IN
             /\ nStart' = n
             /\ hasInitialized' = (n > 0)
             /\ isLoading' = (n > 0)
             /\ gameStarted' = (n > 0)
             /\ messages' = IF n > 0 THEN <<UserMessage(userArgument)>>
                            ELSE <<>>
             /\ startReqs' =
                  IF n = 0 THEN startReqs
                  ELSE IF n = 1
                  THEN Append(startReqs, StartRequest(userArgument))
                  ELSE startReqs \o <<StartRequest(userArgument),
                                      StartRequest(userArgument)>>
          /\ nSend' = 0
          /\ nRetry' = 0
          /\ nOvertimeOk' = 0
          /\ tickEnded' = FALSE
          /\ issuedSid' = Null
          /\ nEnd' = 0
          /\ UNCHANGED <<userArgument, userInput, userScore, botScore,
                         timeRemaining, sessionId, gameEnded, finalReport,
                         currentJudgeRuling, isSurrendering,
                         cookingMessageIndex, isOvertime,
                         sendReqs, endReqs, timeouts>>
          /\ TimerEffect(intervals)
     ELSE UNCHANGED <<progVars, histVars>>
  /\ lastOp' = "handleStartArgument"

\* handleBackToStart (the Arena's onBack): the Arena unmounts, its effect
\* cleanups run and its state is discarded.  Continuations and timeouts of
\* the unmounted Arena can change no state any more (the state setters of an
\* unmounted component do nothing), so they leave the model here.
HandleBackToStartKeepsArena ==
  /\ Screen \in {"arena", "report"}
  /\ currentView' = "start"
  /\ userArgument' = <<>>
  /\ lastOp' = "handleBackToStart"
  /\ UNCHANGED <<arenaVars, netVars, histVars>>
  /\ TimerEffect(intervals)
HandleBackToStart ==
  /\ Screen \in {"arena", "report"}
  /\ currentView' = "start"
  /\ userArgument' = <<>>
  /\ messages' = ArenaInitial.messages
  /\ userInput' = ArenaInitial.userInput
  /\ isLoading' = ArenaInitial.isLoading
  /\ userScore' = ArenaInitial.userScore
  /\ botScore' = ArenaInitial.botScore
  /\ timeRemaining' = ArenaInitial.timeRemaining
  /\ gameStarted' = ArenaInitial.gameStarted
  /\ sessionId' = ArenaInitial.sessionId
  /\ gameEnded' = ArenaInitial.gameEnded
  /\ finalReport' = ArenaInitial.finalReport
  /\ currentJudgeRuling' = ArenaInitial.currentJudgeRuling
  /\ isSurrendering' = ArenaInitial.isSurrendering
  /\ cookingMessageIndex' = ArenaInitial.cookingMessageIndex
  /\ isOvertime' = ArenaInitial.isOvertime
  /\ hasInitialized' = ArenaInitial.hasInitialized
  /\ startReqs' = <<>>
  /\ sendReqs' = <<>>
  /\ endReqs' = <<>>
  /\ timeouts' = <<>>
  /\ issuedSid' = Null
  /\ nStart' = 0
  /\ nSend' = 0
  /\ nEnd' = 0
  /\ nRetry' = 0
  /\ nOvertimeOk' = 0
  /\ tickEnded' = FALSE
  /\ lastOp' = "handleBackToStart"
  /\ TimerEffect(intervals)

\* ------------------------------------------------------ startArgumentSession
\* start_session reply, response.ok
StartSessionOk(i, sid, us, bs, tr, resp) ==
  /\ i \in DOMAIN startReqs
  /\ startReqs' = RemoveAt(startReqs, i)
  /\ sessionId' = sid
  /\ userScore' = us
  /\ botScore' = bs
  /\ timeRemaining' = tr
  /\ messages' = Append(messages, BotMessage(resp))
  /\ isLoading' = FALSE
  /\ issuedSid' = sid
  /\ lastOp' = "-"
  /\ UNCHANGED <<appVars, userInput, gameStarted, gameEnded, finalReport,
                 currentJudgeRuling, isSurrendering, cookingMessageIndex,
                 isOvertime, hasInitialized, sendReqs, endReqs, timeouts,
                 nStart, nSend, nEnd, nRetry, nOvertimeOk, tickEnded>>
  /\ TimerEffect(intervals)

\* start_session network error or non-OK status: catch and finally
StartSessionFail(i) ==
  /\ i \in DOMAIN startReqs
  /\ startReqs' = RemoveAt(startReqs, i)
  /\ messages' = <<>>
  /\ isLoading' = FALSE
  /\ lastOp' = "start_session failed"
  /\ UNCHANGED <<appVars, userInput, userScore, botScore, timeRemaining,
                 gameStarted, sessionId, gameEnded, finalReport,
                 currentJudgeRuling, isSurrendering, cookingMessageIndex,
                 isOvertime, hasInitialized, sendReqs, endReqs, timeouts,
                 histVars>>
  /\ TimerEffect(intervals)

\* ---------------------------------------------------------------- endSession
EndRequest(sid) == [session_id |-> sid]

\* endSession() up to its fetch, called from a closure whose sessionId is sid:
\* the requests in flight afterwards
EndSessionIssues(reqs, sid) ==
  IF sid = Null THEN reqs ELSE Append(reqs, EndRequest(sid))

\* end_session requests issued in this mount after such a call
EndSessionCount(n, sid) == IF sid = Null THEN n ELSE n + 1

\* end_session reply, response.ok
EndSessionOk(i, report) ==
  /\ i \in DOMAIN endReqs
  /\ endReqs' = RemoveAt(endReqs, i)
  /\ finalReport' = report
  /\ gameEnded' = TRUE
  /\ isSurrendering' = FALSE
  /\ cookingMessageIndex' = 0
  /\ lastOp' = "end_session ok"
  /\ UNCHANGED <<appVars, messages, userInput, isLoading, userScore, botScore,
                 timeRemaining, gameStarted, sessionId, currentJudgeRuling,
                 isOvertime, hasInitialized, startReqs, sendReqs, timeouts,
                 histVars>>
  /\ TimerEffect(intervals)

\* end_session network error or non-OK status: the catch block
EndSessionFailOnlyLogs(i) ==
  /\ i \in DOMAIN endReqs
  /\ endReqs' = RemoveAt(endReqs, i)
  /\ lastOp' = "end_session failed"
  /\ UNCHANGED <<appVars, arenaVars, startReqs, sendReqs, timeouts,
                 histVars>>
  /\ TimerEffect(intervals)
EndSessionFail(i) ==
  /\ i \in DOMAIN endReqs
  /\ endReqs' = RemoveAt(endReqs, i)
  /\ gameEnded' = TRUE
  /\ isSurrendering' = FALSE
  /\ cookingMessageIndex' = 0
  /\ lastOp' = "end_session failed"
  /\ UNCHANGED <<appVars, messages, userInput, isLoading, userScore, botScore,
                 timeRemaining, gameStarted, sessionId, finalReport,
                 currentJudgeRuling, isOvertime, hasInitialized,
                 startReqs, sendReqs, timeouts, histVars>>
  /\ TimerEffect(intervals)

\* --------------------------------------------------------- sendArgumentToAPI
\* the early return of sendArgumentToAPI
SendGuardNoSessionCheck(sid, ended) == ~ended
SendGuard(sid, ended) == ~(sid = Null \/ ended)

\* the condition of handleSubmitArgument
SubmitGuardNoTrim(input, loading, ended) ==
  Truthy(input) /\ ~loading /\ ~ended
SubmitGuard(input, loading, ended) ==
  Truthy(Trim(input)) /\ ~loading /\ ~ended

\* what the claim about a failed send compares with: the state just before
\* the submit
PreSubmit == [messages |-> messages, userScore |-> userScore,
              botScore |-> botScore, sessionId |-> sessionId,
              currentJudgeRuling |-> currentJudgeRuling]

\* The request body, and what the continuation after the await closes over
\* (isOvertime, isSurrendering, finalReport of the render of the submit).
SendRequest(message, overtime) ==
  [message |-> message, session_id |-> sessionId, is_overtime |-> overtime,
   cIsOvertime |-> isOvertime, cIsSurrendering |-> isSurrendering,
   cFinalReport |-> finalReport, pre |-> PreSubmit]

\* arena textarea onChange (textarea disabled while isLoading or gameEnded)
SetUserInput(v) ==
  /\ Screen = "arena"
  /\ ~(isLoading \/ gameEnded)
  /\ v # userInput
  /\ userInput' = v
  /\ lastOp' = "-"
  /\ UNCHANGED <<appVars, messages, isLoading, userScore, botScore,
                 timeRemaining, gameStarted, sessionId, gameEnded,
                 finalReport, currentJudgeRuling, isSurrendering,
                 cookingMessageIndex, isOvertime, hasInitialized,
                 netVars, histVars>>
  /\ TimerEffect(intervals)

\* handleSubmitArgument (send button, or Enter in the enabled textarea),
\* with sendArgumentToAPI up to its fetch
HandleSubmitArgumentNoLoading ==
  /\ Screen = "arena"
  /\ ~(isLoading \/ gameEnded)
  /\ IF SubmitGuard(userInput, isLoading, gameEnded)
     THEN /\ userInput' = <<>>
          /\ IF SendGuard(sessionId, gameEnded)
             THEN /\ nSend < MaxSends
                  /\ isLoading' = isLoading
                  /\ currentJudgeRuling' = Null
                  /\ messages' = Append(messages, UserMessage(Trim(userInput)))
                  /\ sendReqs' = Append(sendReqs,
                                        SendRequest(Trim(userInput), isOvertime))
                  /\ nSend' = nSend + 1
             ELSE UNCHANGED <<isLoading, currentJudgeRuling, messages,
                              sendReqs, nSend>>
          /\ UNCHANGED <<appVars, userScore, botScore, timeRemaining,
                         gameStarted, sessionId, gameEnded, finalReport,
                         isSurrendering, cookingMessageIndex, isOvertime,
                         hasInitialized, startReqs, endReqs, timeouts,
                         issuedSid, nStart, nRetry, nEnd, nOvertimeOk,
                         tickEnded>>
          /\ TimerEffect(intervals)
     ELSE UNCHANGED <<progVars, histVars>>
  /\ lastOp' = "handleSubmitArgument"
HandleSubmitArgument ==
  /\ Screen = "arena"
  /\ ~(isLoading \/ gameEnded)
  /\ IF SubmitGuard(userInput, isLoading, gameEnded)
     THEN /\ userInput' = <<>>
          /\ IF SendGuard(sessionId, gameEnded)
             THEN /\ nSend < MaxSends
                  /\ isLoading' = TRUE
                  /\ currentJudgeRuling' = Null
                  /\ messages' = Append(messages, UserMessage(Trim(userInput)))
                  /\ sendReqs' = Append(sendReqs,
                                        SendRequest(Trim(userInput), isOvertime))
                  /\ nSend' = nSend + 1
             ELSE UNCHANGED <<isLoading, currentJudgeRuling, messages,
                              sendReqs, nSend>>
          /\ UNCHANGED <<appVars, userScore, botScore, timeRemaining,
                         gameStarted, sessionId, gameEnded, finalReport,
                         isSurrendering, cookingMessageIndex, isOvertime,
                         hasInitialized, startReqs, endReqs, timeouts,
                         issuedSid, nStart, nRetry, nEnd, nOvertimeOk,
                         tickEnded>>
          /\ TimerEffect(intervals)
     ELSE UNCHANGED <<progVars, histVars>>
  /\ lastOp' = "handleSubmitArgument"

Timeout(kind, surrendering, report, sid) ==
  [kind |-> kind, cIsSurrendering |-> surrendering, cFinalReport |-> report,
   sessionId |-> sid]

\* send_argument reply, response.ok
SendArgumentOk(i, us, bs, tr, ended, resp, status) ==
  /\ i \in DOMAIN sendReqs
  /\ sendReqs' = RemoveAt(sendReqs, i)
  /\ userScore' = us
  /\ botScore' = bs
  /\ timeRemaining' = tr
  /\ gameEnded' = ended
  /\ messages' = Append(messages, BotMessage(resp))
  /\ currentJudgeRuling' = IF status # "" THEN status ELSE currentJudgeRuling
  /\ timeouts' =
       LET r == sendReqs[i] IN
       IF ended /\ r.cIsOvertime
       THEN Append(timeouts, Timeout("overtime 3s", r.cIsSurrendering,
                                     r.cFinalReport, r.session_id))
       ELSE timeouts
  /\ isLoading' = FALSE
  /\ lastOp' = "-"
  /\ nOvertimeOk' = IF sendReqs[i].is_overtime THEN nOvertimeOk + 1
                     ELSE nOvertimeOk
  /\ UNCHANGED <<appVars, userInput, gameStarted, sessionId, finalReport,
                 isSurrendering, cookingMessageIndex, isOvertime,
                 hasInitialized, startReqs, endReqs,
                 issuedSid, nStart, nSend, nEnd, nRetry, tickEnded>>
  /\ TimerEffect(intervals)

\* send_argument network error or non-OK status: catch and finally
SendArgumentFailNoFinally(i) ==
  /\ i \in DOMAIN sendReqs
  /\ sendReqs' = RemoveAt(sendReqs, i)
  /\ messages' = SliceOffLast(messages)
  /\ isLoading' = isLoading
  /\ lastOp' = "send_argument failed"
  /\ UNCHANGED <<appVars, userInput, userScore, botScore, timeRemaining,
                 gameStarted, sessionId, gameEnded, finalReport,
                 currentJudgeRuling, isSurrendering, cookingMessageIndex,
                 isOvertime, hasInitialized, startReqs, endReqs, timeouts,
                 histVars>>
  /\ TimerEffect(intervals)
SendArgumentFail(i) ==
  /\ i \in DOMAIN sendReqs
  /\ sendReqs' = RemoveAt(sendReqs, i)
  /\ messages' = SliceOffLast(messages)
  /\ isLoading' = FALSE
  /\ lastOp' = "send_argument failed"
  /\ UNCHANGED <<appVars, userInput, userScore, botScore, timeRemaining,
                 gameStarted, sessionId, gameEnded, finalReport,
                 currentJudgeRuling, isSurrendering, cookingMessageIndex,
                 isOvertime, hasInitialized, startReqs, endReqs, timeouts,
                 histVars>>
  /\ TimerEffect(intervals)

\* ------------------------------------------------------------ handleSurrender
\* the surrender button is rendered when gameStarted && !gameEnded and is
\* disabled when isSurrendering || isOvertime
SurrenderEnabledInOvertime ==
  Screen = "arena" /\ gameStarted /\ ~gameEnded /\ ~isSurrendering
SurrenderEnabled ==
  Screen = "arena" /\ gameStarted /\ ~gameEnded
  /\ ~(isSurrendering \/ isOvertime)

\* handleSurrender up to the fetch of its endSession(); the fallback timeout
\* closes over isSurrendering of the render of the click
HandleSurrender ==
  /\ SurrenderEnabled
  /\ isSurrendering' = TRUE
  /\ cookingMessageIndex' = 0
  /\ timeouts' = Append(timeouts, Timeout("surrender 15s", isSurrendering,
                                          finalReport, sessionId))
  /\ endReqs' = EndSessionIssues(endReqs, sessionId)
  /\ nEnd' = EndSessionCount(nEnd, sessionId)
  /\ lastOp' = "handleSurrender"
  /\ UNCHANGED <<appVars, messages, userInput, isLoading, userScore, botScore,
                 timeRemaining, gameStarted, sessionId, gameEnded,
                 finalReport, currentJudgeRuling, isOvertime, hasInitialized,
                 startReqs, sendReqs, issuedSid, nStart, nSend, nRetry,
                 nOvertimeOk, tickEnded>>
  /\ TimerEffect(intervals)

\* the condition of the 15 s fallback, on the closure t of the timeout
SurrenderFallbackFires(t) == t.cIsSurrendering

\* the 15 s fallback of handleSurrender fires
SurrenderTimeout(i) ==
  /\ i \in DOMAIN timeouts
  /\ timeouts[i].kind = "surrender 15s"
  /\ timeouts' = RemoveAt(timeouts, i)
  /\ LET t == timeouts[i] IN
     IF SurrenderFallbackFires(t)
     THEN /\ isSurrendering' = FALSE
          /\ cookingMessageIndex' = 0
          /\ endReqs' = EndSessionIssues(endReqs, t.sessionId)
          /\ nEnd' = EndSessionCount(nEnd, t.sessionId)
          /\ nRetry' = EndSessionCount(nRetry, t.sessionId)
     ELSE UNCHANGED <<isSurrendering, cookingMessageIndex, endReqs, nEnd,
                      nRetry>>
  /\ lastOp' = "-"
  /\ UNCHANGED <<appVars, messages, userInput, isLoading, userScore, botScore,
                 timeRemaining, gameStarted, sessionId, gameEnded,
                 finalReport, currentJudgeRuling, isOvertime, hasInitialized,
                 startReqs, sendReqs, issuedSid, nStart, nSend, nOvertimeOk,
                 tickEnded>>
  /\ TimerEffect(intervals)

\* ------------------------------------------------------- overtime end flow
\* the 3 s timeout set by the send_argument continuation fires
OvertimeTimeout(i) ==
  /\ i \in DOMAIN timeouts
  /\ timeouts[i].kind = "overtime 3s"
  /\ LET t == timeouts[i] IN
     IF ~t.cIsSurrendering /\ ~HasReport(t.cFinalReport)
     THEN /\ isSurrendering' = TRUE
          /\ cookingMessageIndex' = 0
          /\ timeouts' = Append(RemoveAt(timeouts, i),
                                Timeout("cooking 2s", t.cIsSurrendering,
                                        t.cFinalReport, t.sessionId))
     ELSE /\ timeouts' = RemoveAt(timeouts, i)
          /\ UNCHANGED <<isSurrendering, cookingMessageIndex>>
  /\ lastOp' = "-"
  /\ UNCHANGED <<appVars, messages, userInput, isLoading, userScore, botScore,
                 timeRemaining, gameStarted, sessionId, gameEnded,
                 finalReport, currentJudgeRuling, isOvertime, hasInitialized,
                 startReqs, sendReqs, endReqs, histVars>>
  /\ TimerEffect(intervals)

\* the nested 2 s timeout fires: endSession()
CookingDelayTimeout(i) ==
  /\ i \in DOMAIN timeouts
  /\ timeouts[i].kind = "cooking 2s"
  /\ timeouts' = RemoveAt(timeouts, i)
  /\ endReqs' = EndSessionIssues(endReqs, timeouts[i].sessionId)
  /\ nEnd' = EndSessionCount(nEnd, timeouts[i].sessionId)
  /\ lastOp' = "-"
  /\ UNCHANGED <<appVars, arenaVars, intervals, startReqs, sendReqs,
                 issuedSid, nStart, nSend, nRetry, nOvertimeOk, tickEnded>>

\* ----------------------------------------------------------------- intervals
\* one firing of a live countdown interval: the setTimeRemaining updater
TimerTick(i) ==
  /\ i \in DOMAIN intervals
  /\ LET iv == intervals[i] IN
     IF timeRemaining <= 1
     THEN /\ timeRemaining' = 0
          /\ IF Truthy(Trim(iv.userInput))
             THEN /\ isOvertime' = TRUE
                  /\ lastOp' = "tick: overtime"
                  /\ UNCHANGED <<endReqs, nEnd, tickEnded>>
             ELSE /\ endReqs' = EndSessionIssues(endReqs, iv.sessionId)
                  /\ nEnd' = EndSessionCount(nEnd, iv.sessionId)
                  /\ lastOp' = "tick: endSession"
                  /\ tickEnded' = TRUE
                  /\ UNCHANGED isOvertime
          /\ UNCHANGED <<appVars, messages, userInput, isLoading, userScore,
                         botScore, gameStarted, sessionId, gameEnded,
                         finalReport, currentJudgeRuling, isSurrendering,
                         cookingMessageIndex, hasInitialized,
                         startReqs, sendReqs, timeouts,
                         issuedSid, nStart, nSend, nRetry, nOvertimeOk>>
          /\ TimerEffect(RemoveAt(intervals, i))
     ELSE /\ timeRemaining' = timeRemaining - 1
          /\ lastOp' = "-"
          /\ UNCHANGED <<appVars, messages, userInput, isLoading, userScore,
                         botScore, gameStarted, sessionId, gameEnded,
                         finalReport, currentJudgeRuling, isSurrendering,
                         cookingMessageIndex, isOvertime, hasInitialized,
                         netVars, histVars>>
          /\ TimerEffect(intervals)

\* the cooking message rotation interval (live while isSurrendering and
\* not gameEnded)
CookingTick ==
  /\ currentView = "arena"
  /\ isSurrendering /\ ~gameEnded
  /\ cookingMessageIndex' = (cookingMessageIndex + 1) % NumCookingMessages
  /\ lastOp' = "-"
  /\ UNCHANGED <<appVars, messages, userInput, isLoading, userScore, botScore,
                 timeRemaining, gameStarted, sessionId, gameEnded,
                 finalReport, currentJudgeRuling, isSurrendering, isOvertime,
                 hasInitialized, intervals, netVars, histVars>>

\* ------------------------------------------------------------- specification
UserStep ==
  \/ \E v \in Texts : SetUserArgument(v)
  \/ HandleStartArgument
  \/ HandleBackToStart
  \/ \E v \in Texts : SetUserInput(v)
  \/ HandleSubmitArgument
  \/ HandleSurrender

StartReply ==
  \/ \E i \in DOMAIN startReqs, sid \in SessionIds, us \in Scores,
        bs \in Scores, tr \in ServerTimes, resp \in BotResponses :
       StartSessionOk(i, sid, us, bs, tr, resp)
  \/ \E i \in DOMAIN startReqs : StartSessionFail(i)

SendReply ==
  \/ \E i \in DOMAIN sendReqs, us \in Scores, bs \in Scores,
        tr \in ServerTimes, ended \in BOOLEAN, resp \in BotResponses,
        status \in StatusUpdates :
       SendArgumentOk(i, us, bs, tr, ended, resp, status)
  \/ \E i \in DOMAIN sendReqs : SendArgumentFail(i)

EndReply ==
  \/ \E i \in DOMAIN endReqs, report \in Reports : EndSessionOk(i, report)
  \/ \E i \in DOMAIN endReqs : EndSessionFail(i)

TimeoutStep ==
  \/ \E i \in DOMAIN timeouts : SurrenderTimeout(i)
  \/ \E i \in DOMAIN timeouts : OvertimeTimeout(i)
  \/ \E i \in DOMAIN timeouts : CookingDelayTimeout(i)

CountdownStep == \E i \in DOMAIN intervals : TimerTick(i)

Next ==
  \/ UserStep
  \/ StartReply
  \/ SendReply
  \/ EndReply
  \/ TimeoutStep
  \/ CountdownStep
  \/ CookingTick

Spec == Init /\ [][Next]_vars

\* Every issued request eventually returns a reply or an error, every pending
\* timeout fires and a live interval keeps firing; the user is free to stop.
FairSpec ==
  /\ Spec
  /\ WF_vars(StartReply)
  /\ WF_vars(SendReply)
  /\ WF_vars(EndReply)
  /\ WF_vars(TimeoutStep)
  /\ WF_vars(CountdownStep)
  /\ WF_vars(CookingTick)

\* ===================================================================== claims

\* C1: every send_argument request was issued in a state where sessionId was
\* not null, after a successful start_session reply of this mount, and
\* carries the session id of that reply.
C1_SendCarriesSession ==
  \A i \in DOMAIN sendReqs :
    /\ sendReqs[i].pre.sessionId # Null
    /\ issuedSid # Null
    /\ sendReqs[i].session_id = issuedSid

\* a send_argument request is in flight
C1_Witness == sendReqs # <<>> /\ issuedSid \in SessionIds

\* Nothing the program started is still to come: no request in flight, no
\* timeout pending, no countdown interval live.
Quiescent ==
  /\ startReqs = <<>> /\ sendReqs = <<>> /\ endReqs = <<>>
  /\ timeouts = <<>>
  /\ intervals = <<>>

\* C2 (as claimed, for the countdown reaching 0 with an empty input box and
\* no session id, stated of the final state): when the tick that took the
\* countdown to 0 has run and nothing is still to come, the game has ended.
C2_TimerZeroEndsSession ==
  (/\ currentView = "arena" /\ gameStarted /\ timeRemaining = 0
   /\ lastOp = "tick: endSession" /\ sessionId = Null /\ ~isSurrendering
   /\ Quiescent)
    => gameEnded

\* C3 (as claimed): within one mount gameStarted never returns to false and
\* gameEnded, once true, never becomes false again.
C3_PhaseOnlyForward ==
  [][(currentView = "arena" /\ currentView' = "arena")
       => /\ gameStarted => gameStarted'
          /\ gameEnded => gameEnded']_vars

\* C4: a submit with empty or whitespace-only input, on the landing page or
\* in the arena, changes no state and issues no request.
C4_BlankSubmitNoOp ==
  [][(\/ lastOp' = "handleStartArgument" /\ ~Truthy(Trim(userArgument))
      \/ lastOp' = "handleSubmitArgument" /\ ~Truthy(Trim(userInput)))
       => UNCHANGED <<progVars, histVars>>]_vars

\* handleSubmitArgument has run on a whitespace-only input (a submit that
\* sends clears the input)
C4_Witness ==
  /\ lastOp = "handleSubmitArgument"
  /\ userInput = <<SPACE>>
  /\ sessionId # Null

\* C5 (as claimed): after a failed send_argument the message list, the scores,
\* the session id and the judge ruling shown are those of just before the
\* submit, and the failure changes neither timeRemaining nor gameEnded.
C5_FailedSendRestores ==
  [][lastOp' = "send_argument failed" =>
       \E i \in DOMAIN sendReqs :
         /\ sendReqs' = RemoveAt(sendReqs, i)
         /\ messages' = sendReqs[i].pre.messages
         /\ userScore' = sendReqs[i].pre.userScore
         /\ botScore' = sendReqs[i].pre.botScore
         /\ sessionId' = sendReqs[i].pre.sessionId
         /\ currentJudgeRuling' = sendReqs[i].pre.currentJudgeRuling
         /\ timeRemaining' = timeRemaining
         /\ gameEnded' = gameEnded]_vars

\* C6 (as claimed): after a failed start_session the arena is as before the
\* start attempt.
C6_FailedStartRestores ==
  lastOp = "start_session failed" =>
    /\ messages = <<>>
    /\ sessionId = Null
    /\ ~isLoading
    /\ userScore = 0
    /\ botScore = 0
    /\ ~gameStarted

\* C7 (as claimed, stated of the final state): when a game with a session id
\* has ended and nothing is still to come, an end_session request has been
\* issued in this mount; and a successful end_session reply gives the report
\* screen.
C7_ReportFollowsSession ==
  /\ (currentView = "arena" /\ sessionId # Null /\ gameEnded /\ Quiescent)
       => nEnd > 0
  /\ lastOp = "end_session ok" => Screen = "report"

\* C8 (as claimed, for a surrender without a session id, stated of the final
\* state): the cooking screen, on which the user can do nothing, is never
\* what is shown when nothing is still to come.
C8_SurrenderEnds ==
  (currentView = "arena" /\ sessionId = Null /\ Quiescent)
    => Screen # "cooking"

\* C9: at most one start_session request per mount, the surrender fallback
\* re-issues no end_session request, and no failure handler issues a request.
C9_NoRetry ==
  [][/\ nStart' <= 1
     /\ nRetry' = 0
     /\ lastOp' \in {"start_session failed", "send_argument failed",
                     "end_session failed"}
          => /\ Len(startReqs') <= Len(startReqs)
             /\ Len(sendReqs') <= Len(sendReqs)
             /\ Len(endReqs') <= Len(endReqs)]_vars

\* the start_session request of this mount has failed and none is in flight
C9_Witness ==
  lastOp = "start_session failed" /\ nStart = 1 /\ startReqs = <<>>

\* C10: at most one countdown interval is live, and none is live when the
\* game has not started, has ended, is in overtime or timeRemaining is 0.
C10_OneInterval ==
  /\ Len(intervals) <= 1
  /\ intervals # <<>> => (currentView = "arena" /\ TimerCond)

\* the effect has re-run after a tick and a new interval is live
C10_Witness ==
  /\ Len(intervals) = 1
  /\ timeRemaining < InitialTime
  /\ sessionId = Null

\* C11: a mount begins with timeRemaining = 300; a countdown tick happens only
\* in the active phase, lowers timeRemaining by exactly 1 and never takes it
\* below 0; every other change of timeRemaining within a mount is a
\* start_session or send_argument reply writing the server's time_remaining.
C11_Countdown ==
  [][/\ (currentView = "start" /\ currentView' = "arena")
          => timeRemaining' = InitialTime
     /\ (\E i \in DOMAIN intervals : TimerTick(i))
          => /\ TimerCond
             /\ timeRemaining' = timeRemaining - 1
             /\ timeRemaining' >= 0
     /\ timeRemaining' # timeRemaining
          => \/ \E i \in DOMAIN intervals : TimerTick(i)
             \/ (StartReply \/ SendReply) /\ timeRemaining' \in ServerTimes
             \/ currentView' = "start" /\ timeRemaining' = InitialTime]_vars

\* the countdown has run from a server-given time down to 0
C11_Witness ==
  /\ timeRemaining = 0
  /\ lastOp \in {"tick: overtime", "tick: endSession"}
  /\ sessionId # Null

\* C12: whenever the arena view is shown the opening statement is non-blank,
\* a start_session request was issued for it, and every start_session request
\* in flight and the first chat message carry exactly that statement.
C12_ArenaNeedsStatement ==
  currentView = "arena" =>
    /\ Truthy(Trim(userArgument))
    /\ nStart = 1
    /\ \A i \in DOMAIN startReqs : startReqs[i].message = userArgument
    /\ messages # <<>> => messages[1] = UserMessage(userArgument)

\* the session of a statement with leading whitespace has started and the
\* bot has answered
C12_Witness ==
  /\ currentView = "arena"
  /\ userArgument = <<SPACE, "a">>
  /\ sessionId # Null
  /\ Len(messages) >= 2

\* C13: the step of Back to Start leaves the view 'start' with an empty
\* opening statement, nothing of the Arena pending and the Arena state at
\* its initial values; and the state after the next mount (with its
\* auto-start effect run up to the fetch) is the initial state plus the new
\* statement's optimistic message and its one start_session request, with no
\* message, score, time, session id, request, timeout or flag of an earlier
\* session.
C13_BackResets ==
  [][/\ (currentView = "arena" /\ currentView' = "start")
          => /\ userArgument' = <<>>
             /\ messages' = <<>> /\ userScore' = 0 /\ botScore' = 0
             /\ timeRemaining' = 300 /\ sessionId' = Null
             /\ ~gameStarted' /\ ~gameEnded' /\ ~isOvertime'
             /\ startReqs' = <<>> /\ sendReqs' = <<>> /\ endReqs' = <<>>
             /\ timeouts' = <<>> /\ intervals' = <<>>
     /\ (currentView = "start" /\ currentView' = "arena")
          => /\ messages' = <<UserMessage(userArgument')>>
             /\ userScore' = 0 /\ botScore' = 0
             /\ timeRemaining' = 300 /\ sessionId' = Null
             /\ ~gameEnded' /\ ~isOvertime' /\ ~isSurrendering'
             /\ finalReport' = Null /\ currentJudgeRuling' = Null
             /\ userInput' = <<>>
             /\ startReqs' = <<StartRequest(userArgument')>>
             /\ sendReqs' = <<>> /\ endReqs' = <<>> /\ timeouts' = <<>>
             /\ intervals' = <<[sessionId |-> Null, userInput |-> <<>>]>>]_vars

\* Back to Start has just run
C13_Witness ==
  /\ lastOp = "handleBackToStart"
  /\ currentView = "start"
  /\ userArgument = <<>>
  /\ timeRemaining = 300

\* C14: the tick that takes the countdown to 0 enters overtime (isOvertime
\* true, timeRemaining 0) and issues no end_session request when the input
\* box holds non-blank text; with a blank input box it calls endSession and
\* does not enter overtime; and no other step enters overtime.
C14_OvertimeEntry ==
  [][/\ ((\E i \in DOMAIN intervals : TimerTick(i)) /\ timeRemaining' = 0)
          => IF Truthy(Trim(userInput))
             THEN /\ isOvertime'
                  /\ endReqs' = endReqs
                  /\ nEnd' = nEnd
             ELSE /\ ~isOvertime'
                  /\ \E i \in DOMAIN intervals :
                       /\ endReqs' = EndSessionIssues(endReqs,
                                                      intervals[i].sessionId)
                       /\ nEnd' = EndSessionCount(nEnd, intervals[i].sessionId)
     /\ (~isOvertime /\ isOvertime')
          => /\ \E i \in DOMAIN intervals : TimerTick(i)
             /\ timeRemaining' = 0
             /\ Truthy(Trim(userInput))]_vars

\* the countdown has reached 0 with text in the input box
C14_Witness ==
  /\ lastOp = "tick: overtime"
  /\ isOvertime
  /\ Truthy(Trim(userInput))
  /\ endReqs = <<>>

\* C15 (as claimed): in one mount at most one overtime argument receives a
\* successful reply, and once one has, the game is ended and no send_argument
\* request is in flight.
C15_OneFinalMessage ==
  /\ nOvertimeOk <= 1
  /\ nOvertimeOk >= 1 => (gameEnded /\ sendReqs = <<>>)

\* C16 (as claimed): in the overtime end flow, while the delay before
\* endSession is pending the cooking screen is what is shown (isSurrendering
\* true and the cooking-screen condition true); at most one such flow is
\* under way, and the endSession it ends with issues a request.
C16_OvertimeCookingScreen ==
  /\ \A i \in DOMAIN timeouts :
       timeouts[i].kind = "cooking 2s"
         => /\ isSurrendering
            /\ Screen = "cooking"
            /\ timeouts[i].sessionId # Null
  /\ Cardinality({i \in DOMAIN timeouts :
                    timeouts[i].kind \in {"overtime 3s", "cooking 2s"}}) <= 1

\* C17 (as claimed): when the 15 s timeout of a surrender fires while the
\* arena is still surrendering (no end_session reply has ended the game), the
\* step clears isSurrendering, resets the cooking message index and calls
\* endSession again.
C17_SurrenderFallback ==
  [][((\E i \in DOMAIN timeouts : SurrenderTimeout(i))
        /\ isSurrendering /\ ~gameEnded)
       => /\ ~isSurrendering'
          /\ cookingMessageIndex' = 0
          /\ nEnd' = EndSessionCount(nEnd, sessionId)
          /\ endReqs' = EndSessionIssues(endReqs, sessionId)]_vars

\* C18: the step of a failed end_session request leaves gameEnded true,
\* isSurrendering false and cookingMessageIndex 0, and changes none of
\* finalReport, messages and the scores.
C18_EndSessionFailureEnds ==
  [][lastOp' = "end_session failed"
       => /\ gameEnded'
          /\ ~isSurrendering'
          /\ cookingMessageIndex' = 0
          /\ UNCHANGED <<finalReport, messages, userScore, botScore>>]_vars

\* a surrender's end_session request has failed: the game is ended with no
\* report, so the arena is shown
C18_Witness ==
  /\ lastOp = "end_session failed"
  /\ gameEnded
  /\ finalReport = Null
  /\ Screen = "arena"
  /\ Len(messages) >= 2

\* C19 (as claimed): at most one end_session request is issued in one mount.
C19_OneEndSession == nEnd <= 1

\* C20: handleSurrender runs only in states where neither isOvertime nor
\* isSurrendering is true, so the end_session request it issues is never
\* issued in overtime or during an earlier surrender.
C20_NoSurrenderInOvertime ==
  [][lastOp' = "handleSurrender"
       => /\ ~isOvertime
          /\ ~isSurrendering
          /\ ~isOvertime'
          /\ Len(endReqs') <= Len(endReqs) + 1]_vars

\* a surrender has just issued its end_session request
C20_Witness ==
  /\ lastOp = "handleSurrender"
  /\ isSurrendering
  /\ ~isOvertime
  /\ nEnd = 1
  /\ endReqs # <<>>

\* C21: at most one start_session or send_argument request is in flight,
\* and a step that issues a send_argument request starts in a state where
\* neither isLoading nor gameEnded is true.
C21_OneOutstanding ==
  [][/\ Len(startReqs') + Len(sendReqs') <= 1
     /\ Len(sendReqs') > Len(sendReqs) => (~isLoading /\ ~gameEnded)]_vars

\* a second argument of the mount is in flight, alone
C21_Witness ==
  /\ Len(sendReqs) = 1
  /\ startReqs = <<>>
  /\ nSend = 2
  /\ isLoading

\* C22 (as claimed): once a countdown tick of this mount has taken the
\* countdown to 0 and called endSession, no step of the mount issues a
\* send_argument request.
C22_NoSendAfterZero ==
  [][(tickEnded /\ currentView' = "arena")
       => (nSend' = nSend /\ Len(sendReqs') <= Len(sendReqs))]_vars

\* C23: isLoading is true exactly when a start_session or send_argument
\* request is in flight.
C23_LoadingWhileOutstanding ==
  isLoading <=> (startReqs # <<>> \/ sendReqs # <<>>)

\* the error of a send_argument request has been handled and the input is
\* enabled again
C23_Witness ==
  /\ lastOp = "send_argument failed"
  /\ ~isLoading
  /\ sendReqs = <<>>
  /\ ~gameEnded

\* C24: the message list alternates user, bot, user, bot from a user message
\* on; its length is even when isLoading is false and odd, ending with the
\* optimistic user message, when a start_session or send_argument request is
\* in flight.
C24_TranscriptAlternates ==
  /\ \A k \in DOMAIN messages :
       messages[k].role = IF k % 2 = 1 THEN "user" ELSE "bot"
  /\ ~isLoading => Len(messages) % 2 = 0
  /\ (startReqs # <<>> \/ sendReqs # <<>>)
       => /\ Len(messages) % 2 = 1
          /\ messages[Len(messages)].role = "user"

\* two arguments of the mount have been answered
C24_Witness ==
  /\ Len(messages) = 6
  /\ ~isLoading
  /\ nSend = 2

\* C25: within a mount isOvertime, once true, stays true, and in overtime no
\* countdown interval is live and no step is a countdown tick, whatever
\* time_remaining and game_ended the replies carry.
C25_OvertimeAbsorbing ==
  [][(isOvertime /\ currentView' = "arena")
       => /\ isOvertime'
          /\ intervals = <<>> /\ intervals' = <<>>
          /\ ~(\E i \in DOMAIN intervals : TimerTick(i))]_vars

\* in overtime a reply has put timeRemaining above 0 and left the game
\* running, and no interval is live
C25_Witness ==
  /\ isOvertime
  /\ nOvertimeOk >= 1
  /\ timeRemaining > 0
  /\ ~gameEnded
  /\ intervals = <<>>

\* --------------------------------------------- the countdown under editing
\* every closure a countdown interval can hold
IntervalValues == [sessionId : SessionIds \cup {Null}, userInput : Texts]

\* a firing of the interval that holds the closure iv
TickOf(iv) == \E i \in DOMAIN intervals : intervals[i] = iv /\ TimerTick(i)

\* The arena with a user who only types: the opening statement, the start,
\* edits of the input box, the start_session reply and the countdown.
EditNext ==
  \/ \E v \in Texts : SetUserArgument(v)
  \/ HandleStartArgument
  \/ \E v \in Texts : SetUserInput(v)
  \/ StartReply
  \/ CountdownStep

\* The start_session request is answered, and an interval fires once it has
\* been left running for its period: a firing is owed only to an interval
\* that stays live, not to one that an edit has cleared and replaced.
EditSpec ==
  /\ Init
  /\ [][EditNext]_vars
  /\ WF_vars(StartReply)
  /\ \A iv \in IntervalValues : WF_vars(TickOf(iv))

\* C26 (as claimed): in an active game the countdown eventually reaches 0,
\* also when the user keeps changing the input text.
C26_EditingDoesNotPostpone ==
  (currentView = "arena" /\ TimerCond) ~> (timeRemaining = 0)

\* ------------------------------------------------------- parseReportSections
\* A report is a string: a sequence of characters in which NL is the line
\* break.  A header marker (an emoji, a name and a colon, such as
\* '🏆 FINAL VERDICT:'), the mask emoji and the rule '---' are single
\* characters of the model; two of the seven markers are modelled.  The id
\* of a section is a function of its title and is left out.
MaxReportLines == 4     \* lines of a report

NL == "\n"
DASH3 == "---"
MASK == "mask"
H1 == "Arguing Persona:"
H2 == "FINAL VERDICT:"
Markers == { H1, H2 }

\* lines a report is made of: empty, blank, content, content to be trimmed,
\* a rule, a mask line, an indented rule, a bare header, a header with a
\* title after the colon
ReportLines ==
  { <<>>, <<SPACE>>, <<"x">>, <<SPACE, "y">>, <<DASH3>>, <<MASK, "x">>,
    <<SPACE, DASH3>>, <<H1>>, <<SPACE, H2, SPACE, "x">> }

\* lines.join('\n')
RECURSIVE JoinLines(_)
JoinLines(ls) ==
  IF ls = <<>> THEN <<>>
  ELSE IF Len(ls) = 1 THEN ls[1]
  ELSE ls[1] \o <<NL>> \o JoinLines(Tail(ls))

RECURSIVE LineSeqs(_)
LineSeqs(n) ==
  IF n = 0 THEN { <<>> }
  ELSE LET shorter == LineSeqs(n - 1) IN
       shorter \cup { Append(ls, l) : ls \in { s \in shorter : Len(s) = n - 1 },
                                      l \in ReportLines }

\* the final_report strings the server can send
ReportTexts == { JoinLines(ls) : ls \in LineSeqs(MaxReportLines) \ { <<>> } }

\* report.split('\n')
RECURSIVE SplitLines(_, _)
SplitLines(s, line) ==
  IF s = <<>> THEN <<line>>
  ELSE IF Head(s) = NL THEN <<line>> \o SplitLines(Tail(s), <<>>)
  ELSE SplitLines(Tail(s), Append(line, Head(s)))

\* line.includes(one of the markers)
IsHeaderLine(line) == \E k \in DOMAIN line : line[k] \in Markers

StartsWith(line, c) == line # <<>> /\ Head(line) = c

\* a letter, or a marker (which begins with its name once the emoji before
\* it is removed)
IsLetter(c) == c \in {"x", "y"} \cup Markers

\* title.replace(/^[^a-zA-Z]*/, '')
RECURSIVE StripLeadingNonLetters(_)
StripLeadingNonLetters(s) ==
  IF s = <<>> THEN <<>>
  ELSE IF IsLetter(Head(s)) THEN s ELSE StripLeadingNonLetters(Tail(s))

\* title.split(':')[1] of a header line: the text after the colon of its
\* first marker (up to the next marker)
RECURSIVE UpToMarker(_)
UpToMarker(s) ==
  IF s = <<>> \/ Head(s) \in Markers THEN <<>>
  ELSE <<Head(s)>> \o UpToMarker(Tail(s))

RECURSIVE AfterFirstColon(_)
AfterFirstColon(s) ==
  IF s = <<>> THEN <<>>
  ELSE IF Head(s) \in Markers THEN UpToMarker(Tail(s))
  ELSE AfterFirstColon(Tail(s))

\* the title extraction of a header line
SectionTitle(line) ==
  LET whole == Trim(line)
      part == Trim(AfterFirstColon(whole))
  IN  Trim(StripLeadingNonLetters(IF Truthy(part) THEN part ELSE whole))

\* the else-if branch: the line is pushed to currentContent
IsContentLine(line) ==
  Truthy(Trim(line)) /\ ~StartsWith(line, MASK) /\ ~StartsWith(line, DASH3)

\* currentSection.content = currentContent.join('\n').trim(); push
SaveSection(st) ==
  IF st.hasSection
  THEN Append(st.sections,
              [title |-> st.title, content |-> Trim(JoinLines(st.content))])
  ELSE st.sections

\* one iteration of the for loop
ParseLine(st, line) ==
  IF IsHeaderLine(line)
  THEN [sections |-> SaveSection(st), hasSection |-> TRUE,
        title |-> SectionTitle(line), content |-> <<>>]
  ELSE IF st.hasSection /\ IsContentLine(line)
  THEN [st EXCEPT !.content = Append(@, Trim(line))]
  ELSE st

RECURSIVE ParseLines(_, _)
ParseLines(st, lines) ==
  IF lines = <<>> THEN st
  ELSE ParseLines(ParseLine(st, Head(lines)), Tail(lines))

HasContent(section) == Len(section.content) > 0

\* sections.filter(section => section.content.length > 0)
FilterSectionsKeepsAll(sections) == sections
FilterSections(sections) == SelectSeq(sections, HasContent)

parseReportSections(report) ==
  LET start == [sections |-> <<>>, hasSection |-> FALSE, title |-> <<>>,
                content |-> <<>>]
      done == ParseLines(start, SplitLines(report, <<>>))
  IN  FilterSections(SaveSection(done))

\* end_session reply, response.ok, with a report string
ParseEndReply ==
  \/ \E i \in DOMAIN endReqs, report \in ReportTexts : EndSessionOk(i, report)
  \/ \E i \in DOMAIN endReqs : EndSessionFail(i)

\* A game that is surrendered: the opening statement, the start, the
\* start_session reply, the surrender, the end_session reply and, on the
\* report screen (which renders parseReportSections(finalReport)), Back.
ParseNext ==
  \/ \E v \in Texts : SetUserArgument(v)
  \/ HandleStartArgument
  \/ StartReply
  \/ HandleSurrender
  \/ ParseEndReply
  \/ HandleBackToStart

ParseSpec == Init /\ [][ParseNext]_vars

\* the indices of the header lines of a report, in order
HeaderIndices(lines) ==
  SelectSeq([k \in 1..Len(lines) |-> k], LAMBDA k : IsHeaderLine(lines[k]))

\* the header line k is followed by a content line before the next header
FollowedByContent(lines, k) ==
  \E j \in (k + 1)..Len(lines) :
    /\ IsContentLine(lines[j])
    /\ \A m \in (k + 1)..j : ~IsHeaderLine(lines[m])

\* C27: on the report screen every section returned has non-empty content,
\* and the sections are, in order and one each, those of the header lines
\* that are followed by a content line before the next header line or the
\* end of the report.
C27_ParseReportSections ==
  Screen = "report" =>
    LET lines == SplitLines(finalReport, <<>>)
        sections == parseReportSections(finalReport)
        heads == SelectSeq(HeaderIndices(lines),
                           LAMBDA k : FollowedByContent(lines, k))
    IN  /\ \A n \in DOMAIN sections : sections[n].content # <<>>
        /\ Len(sections) = Len(heads)
        /\ \A n \in DOMAIN sections :
             sections[n].title = SectionTitle(lines[heads[n]])

\* a report with two header lines of which one has content is shown
C27_Witness ==
  /\ Screen = "report"
  /\ Len(HeaderIndices(SplitLines(finalReport, <<>>))) = 2
  /\ Len(parseReportSections(finalReport)) = 1

====
